---- MODULE Spec2Model ----
(***************************************************************************)
(* Model of calico/felix/refcount.py: the ReferenceManager actor, the      *)
(* RefHelper client-side helper and the RefCountedActor contract.          *)
(*                                                                         *)
(* Every actor owns a FIFO mailbox and handles one message at a time; a    *)
(* call with async=True appends a message to the callee's mailbox.         *)
(* gevent.spawn starts an independent greenlet, modelled as an unordered   *)
(* set of tasks in flight.                                                 *)
(***************************************************************************)
EXTENDS Integers, Sequences, FiniteSets, TLC

\* ---------------------------------------------------------------- bounds
\* Total number of get_and_incref requests the clients may send.
MaxAcquires == 2

\* Total number of get_and_incref requests the helpers may send.
MaxHelperAcquires == 2

\* How many decref calls a faulty client may be ahead of its get_and_incref
\* calls.
MaxStrayReleases == 1

\* Total number of repeated _notify_ready and _notify_cleanup_complete calls
\* the objects may make.
MaxDuplicateUpcalls == 1

\* Object identifiers the helpers ask for.
Ids == {"A", "B"}

\* Object identifiers the direct clients ask for.
ClientIds == {"A"}

\* Helpers (each stands for a RefHelper together with its owning actor).
Helpers == {"h1", "h2"}

\* ------------------------------------------------- reference-count states
CREATED == "created"
STARTING == "starting"
LIVE == "live"
STOPPING == "stopping"

\* ------------------------------------------------------------- callbacks
\* A callback is identified by the request that registered it (every
\* functools.partial built by acquire_ref is a distinct object); target is
\* the helper whose on_ref_acquired it wraps, or Client for a direct caller.
Client == "client"
NoCallback == [target |-> "none", n |-> 0]

VARIABLES
    \* ReferenceManager
    objects_by_id,            \* dict: id -> current object
    stopping_objects_by_id,   \* defaultdict(set): id -> objects being cleaned up
    pending_ref_callbacks,    \* defaultdict(set): id -> callbacks waiting for LIVE
    mgr_queue,                \* the manager's mailbox (FIFO)
    mgr_failed,               \* an assertion failed in a manager handler
    \* RefCountedActor fields, indexed by object (1..number created)
    obj_id,                   \* _id
    ref_mgmt_state,
    ref_count,
    \* calls received and made by each object
    start_calls,              \* start() calls (followed by _on_object_started)
    notify_ready_calls,       \* _notify_ready() calls made
    unref_sent,               \* on_unreferenced(async=True) messages sent
    unref_handled,            \* on_unreferenced messages handled
    \* greenlets spawned for callbacks, not yet run
    spawned,
    \* RefHelper, per helper
    required_refs,
    pending_increfs,
    acquired_refs,
    actor_queue,              \* on_ref_acquired messages in the owning actor's mailbox
    ready_callback_calls,     \* invocations of _ready_callback
    \* direct clients of the manager
    client_held,              \* id -> references taken and not yet returned
    \* history
    requested,                \* the get_and_incref requests sent, in order
    dispatched,               \* per request: times its callback was spawned
    discarded,                \* callbacks dropped by decref before they fired
    incref_count,             \* per object: get_and_incref handled
    decref_count,             \* per object: decref handled
    created_draining,         \* per object: was an older instance stopping at _create
    increfs_sent,             \* per helper and id: get_and_incref sent
    decrefs_sent              \* per helper and id: decref sent

\* What a manager handler writes, apart from the request history.
mgr_vars == <<objects_by_id, stopping_objects_by_id, pending_ref_callbacks,
              mgr_failed, obj_id, ref_mgmt_state, ref_count, start_calls,
              unref_sent, spawned>>

hist_vars == <<discarded, incref_count, decref_count, created_draining>>

helper_vars == <<required_refs, pending_increfs, acquired_refs, actor_queue,
                 ready_callback_calls, increfs_sent, decrefs_sent>>

vars == <<objects_by_id, stopping_objects_by_id, pending_ref_callbacks,
          mgr_queue, mgr_failed, obj_id, ref_mgmt_state, ref_count,
          start_calls, notify_ready_calls, unref_sent, unref_handled, spawned,
          required_refs, pending_increfs, acquired_refs, actor_queue,
          ready_callback_calls, client_held, requested, dispatched, discarded,
          incref_count, decref_count, created_draining, increfs_sent,
          decrefs_sent>>

\* ------------------------------------------------------ dict operations
EmptyDict == [k \in {} |-> 0]

DictSet(d, k, v) == [x \in DOMAIN d \cup {k} |-> IF x = k THEN v ELSE d[x]]

DictPop(d, k) == [x \in DOMAIN d \ {k} |-> d[x]]

\* Value read from a defaultdict(set): the empty set for a missing key.
DefaultGet(d, k) == IF k \in DOMAIN d THEN d[k] ELSE {}

\* ------------------------------------------------------------- messages
Msg(type, object_id, callback, obj) ==
    [type |-> type, object_id |-> object_id, callback |-> callback, obj |-> obj]

Objs == 1..Len(ref_mgmt_state)

\* ------------------------------------------------------------ the manager
\* The state a manager handler reads and writes, threaded through the
\* statements of the handler.
MgrState ==
    [objects_by_id |-> objects_by_id,
     stopping_objects_by_id |-> stopping_objects_by_id,
     pending_ref_callbacks |-> pending_ref_callbacks,
     failed |-> mgr_failed,
     obj_id |-> obj_id,
     ref_mgmt_state |-> ref_mgmt_state,
     ref_count |-> ref_count,
     start_calls |-> start_calls,
     unref_sent |-> unref_sent,
     spawned |-> spawned,
     dispatched |-> dispatched]

Commit(s) ==
    /\ objects_by_id' = s.objects_by_id
    /\ stopping_objects_by_id' = s.stopping_objects_by_id
    /\ pending_ref_callbacks' = s.pending_ref_callbacks
    /\ mgr_failed' = s.failed
    /\ obj_id' = s.obj_id
    /\ ref_mgmt_state' = s.ref_mgmt_state
    /\ ref_count' = s.ref_count
    /\ start_calls' = s.start_calls
    /\ unref_sent' = s.unref_sent
    /\ spawned' = s.spawned
    /\ dispatched' = s.dispatched

\* Variant of _maybe_start without the check of the object's state.
maybe_start_again(s, id) ==
    IF /\ id \in DOMAIN s.objects_by_id
       /\ id \notin DOMAIN s.stopping_objects_by_id
    THEN LET obj == s.objects_by_id[id] IN
         [s EXCEPT !.ref_mgmt_state[obj] = STARTING,
                   !.start_calls[obj] = @ + 1]
    ELSE s

\* Variant of _maybe_start without the check for pending cleanups.
maybe_start_ignoring_cleanup(s, id) ==
    IF /\ id \in DOMAIN s.objects_by_id
       /\ s.ref_mgmt_state[s.objects_by_id[id]] = CREATED
    THEN LET obj == s.objects_by_id[id] IN
         [s EXCEPT !.ref_mgmt_state[obj] = STARTING,
                   !.start_calls[obj] = @ + 1]
    ELSE s

\* _maybe_start: start the object if present, CREATED and nothing with the
\* same id is still stopping.
maybe_start(s, id) ==
    IF /\ id \in DOMAIN s.objects_by_id
       /\ s.ref_mgmt_state[s.objects_by_id[id]] = CREATED
       /\ id \notin DOMAIN s.stopping_objects_by_id
    THEN LET obj == s.objects_by_id[id] IN
         [s EXCEPT !.ref_mgmt_state[obj] = STARTING,
                   !.start_calls[obj] = @ + 1]
    ELSE s

\* Variant of _maybe_notify_referrers that does not wait for the object to
\* be LIVE.
maybe_notify_referrers_early(s, id) ==
    IF id \in DOMAIN s.objects_by_id
    THEN LET obj == s.objects_by_id[id]
             cbs == DefaultGet(s.pending_ref_callbacks, id)
         IN  [s EXCEPT
                !.spawned = @ \cup {[cb |-> cb, object_id |-> id, obj |-> obj] : cb \in cbs},
                !.dispatched = [n \in DOMAIN @ |->
                                  IF \E cb \in cbs : cb.n = n THEN @[n] + 1 ELSE @[n]],
                !.pending_ref_callbacks = DictPop(@, id)]
    ELSE s

\* Variant of _maybe_notify_referrers that leaves the callbacks pending
\* after spawning them.
maybe_notify_referrers_keeping(s, id) ==
    IF /\ id \in DOMAIN s.objects_by_id
       /\ s.ref_mgmt_state[s.objects_by_id[id]] = LIVE
    THEN LET obj == s.objects_by_id[id]
             cbs == DefaultGet(s.pending_ref_callbacks, id)
         IN  [s EXCEPT
                !.spawned = @ \cup {[cb |-> cb, object_id |-> id, obj |-> obj] : cb \in cbs},
                !.dispatched = [n \in DOMAIN @ |->
                                  IF \E cb \in cbs : cb.n = n THEN @[n] + 1 ELSE @[n]]]
    ELSE s

\* _maybe_notify_referrers: if the object is LIVE, spawn every pending
\* callback with (id, obj) and pop the pending set.  (Both callers pass an id
\* that is in objects_by_id, so the else branch never meets obj = None.)
maybe_notify_referrers(s, id) ==
    IF /\ id \in DOMAIN s.objects_by_id
       /\ s.ref_mgmt_state[s.objects_by_id[id]] = LIVE
    THEN LET obj == s.objects_by_id[id]
             cbs == DefaultGet(s.pending_ref_callbacks, id)
         IN  [s EXCEPT
                !.spawned = @ \cup {[cb |-> cb, object_id |-> id, obj |-> obj] : cb \in cbs},
                !.dispatched = [n \in DOMAIN @ |->
                                  IF \E cb \in cbs : cb.n = n THEN @[n] + 1 ELSE @[n]],
                !.pending_ref_callbacks = DictPop(@, id)]
    ELSE s

\* _create plus the bookkeeping of get_and_incref lines 60-63: a new object
\* (RefCountedActor.__init__: CREATED, ref_count 0) becomes the current one.
create(s, id) ==
    LET obj == Len(s.ref_mgmt_state) + 1 IN
    [s EXCEPT !.obj_id = Append(@, id),
              !.ref_mgmt_state = Append(@, CREATED),
              !.ref_count = Append(@, 0),
              !.start_calls = Append(@, 0),
              !.unref_sent = Append(@, 0),
              !.objects_by_id = DictSet(@, id, obj)]

\* Variant of get_and_incref that constructs a new object for every request.
do_get_and_incref_always_creating(s, id, callback) ==
    LET s1 == create(s, id)
        obj == s1.objects_by_id[id]
        s2 == IF callback # NoCallback
              THEN [s1 EXCEPT !.pending_ref_callbacks =
                        DictSet(@, id, DefaultGet(@, id) \cup {callback})]
              ELSE s1
        s3 == [s2 EXCEPT !.ref_count[obj] = @ + 1]
    IN  maybe_notify_referrers(maybe_start(s3, id), id)

\* Variant of get_and_incref that leaves the count of a newly created
\* object at zero.
do_get_and_incref_uncounted(s, id, callback) ==
    LET isnew == id \notin DOMAIN s.objects_by_id
        s1 == IF isnew THEN create(s, id) ELSE s
        obj == s1.objects_by_id[id]
        s2 == IF callback # NoCallback
              THEN [s1 EXCEPT !.pending_ref_callbacks =
                        DictSet(@, id, DefaultGet(@, id) \cup {callback})]
              ELSE s1
        s3 == IF isnew THEN s2 ELSE [s2 EXCEPT !.ref_count[obj] = @ + 1]
    IN  maybe_notify_referrers(maybe_start(s3, id), id)

\* The body of get_and_incref.
do_get_and_incref(s, id, callback) ==
    LET s1 == IF id \notin DOMAIN s.objects_by_id THEN create(s, id) ELSE s
        obj == s1.objects_by_id[id]
        s2 == IF callback # NoCallback
              THEN [s1 EXCEPT !.pending_ref_callbacks =
                        DictSet(@, id, DefaultGet(@, id) \cup {callback})]
              ELSE s1
        s3 == [s2 EXCEPT !.ref_count[obj] = @ + 1]
    IN  maybe_notify_referrers(maybe_start(s3, id), id)

\* Variant of on_object_startup_complete that believes every notification.
do_on_object_startup_complete_unchecked(s, id, obj) ==
    maybe_notify_referrers([s EXCEPT !.ref_mgmt_state[obj] = LIVE], id)

\* Variant of on_object_startup_complete that marks the object LIVE and
\* leaves the pending callbacks for the next get_and_incref to notify.
do_on_object_startup_complete_silent(s, id, obj) ==
    IF ~(id \in DOMAIN s.objects_by_id /\ s.objects_by_id[id] = obj)
    THEN s
    ELSE IF s.ref_mgmt_state[obj] # STARTING
    THEN s
    ELSE [s EXCEPT !.ref_mgmt_state[obj] = LIVE]

\* The body of on_object_startup_complete.
do_on_object_startup_complete(s, id, obj) ==
    IF ~(id \in DOMAIN s.objects_by_id /\ s.objects_by_id[id] = obj)
    THEN s
    ELSE IF s.ref_mgmt_state[obj] # STARTING
    THEN s
    ELSE maybe_notify_referrers([s EXCEPT !.ref_mgmt_state[obj] = LIVE], id)

\* Variant of decref lines 112-122 that cleans up an object that was never
\* started like a running one.
unreference_always_stopping(s, id) ==
    LET obj == s.objects_by_id[id] IN
    [s EXCEPT !.ref_mgmt_state[obj] = STOPPING,
              !.unref_sent[obj] = @ + 1,
              !.stopping_objects_by_id = DictSet(@, id, DefaultGet(@, id) \cup {obj}),
              !.objects_by_id = DictPop(@, id),
              !.pending_ref_callbacks = DictPop(@, id)]

\* Variant of decref lines 112-122 that tells a running object to clean up
\* without recording it in stopping_objects_by_id.
unreference_unrecorded(s, id) ==
    LET obj == s.objects_by_id[id]
        s1 == IF s.ref_mgmt_state[obj] = CREATED
              THEN s
              ELSE [s EXCEPT !.ref_mgmt_state[obj] = STOPPING,
                             !.unref_sent[obj] = @ + 1]
    IN  [s1 EXCEPT !.objects_by_id = DictPop(@, id),
                   !.pending_ref_callbacks = DictPop(@, id)]

\* Variant of decref lines 112-122 that leaves the callbacks of the id
\* pending.
unreference_keeping_callbacks(s, id) ==
    LET obj == s.objects_by_id[id]
        s1 == IF s.ref_mgmt_state[obj] = CREATED
              THEN s
              ELSE [s EXCEPT !.ref_mgmt_state[obj] = STOPPING,
                             !.unref_sent[obj] = @ + 1,
                             !.stopping_objects_by_id =
                                 DictSet(@, id, DefaultGet(@, id) \cup {obj})]
    IN  [s1 EXCEPT !.objects_by_id = DictPop(@, id)]

\* decref lines 112-122, after the count was decremented to zero.
unreference(s, id) ==
    LET obj == s.objects_by_id[id]
        s1 == IF s.ref_mgmt_state[obj] = CREATED
              THEN s
              ELSE [s EXCEPT !.ref_mgmt_state[obj] = STOPPING,
                             !.unref_sent[obj] = @ + 1,
                             !.stopping_objects_by_id =
                                 DictSet(@, id, DefaultGet(@, id) \cup {obj})]
    IN  [s1 EXCEPT !.objects_by_id = DictPop(@, id),
                   !.pending_ref_callbacks = DictPop(@, id)]

\* Variant of decref that, finding no current object for the id, returns the
\* reference to an object of that id that is being cleaned up.
do_decref_stopping(s, id) ==
    IF id \in DOMAIN s.objects_by_id
    THEN LET obj == s.objects_by_id[id]
             s1 == [s EXCEPT !.ref_count[obj] = @ - 1]
         IN  IF s1.ref_count[obj] = 0 THEN unreference(s1, id) ELSE s1
    ELSE IF id \in DOMAIN s.stopping_objects_by_id
    THEN LET obj == CHOOSE o \in s.stopping_objects_by_id[id] : TRUE
         IN  [s EXCEPT !.ref_count[obj] = @ - 1]
    ELSE [s EXCEPT !.failed = TRUE]

\* The body of decref; a failed assertion stops the handler where it is.
do_decref(s, id) ==
    IF id \notin DOMAIN s.objects_by_id
    THEN [s EXCEPT !.failed = TRUE]
    ELSE LET obj == s.objects_by_id[id]
             s1 == [s EXCEPT !.ref_count[obj] = @ - 1]
         IN  IF s1.ref_count[obj] < 0
             THEN [s1 EXCEPT !.failed = TRUE]
             ELSE IF s1.ref_count[obj] = 0
             THEN unreference(s1, id)
             ELSE s1

\* Variant of on_object_cleanup_complete that leaves the emptied set in
\* stopping_objects_by_id.
do_on_object_cleanup_complete_leaving_entry(s, id, obj) ==
    LET left == DefaultGet(s.stopping_objects_by_id, id) \ {obj} IN
    IF left = {}
    THEN maybe_start([s EXCEPT !.stopping_objects_by_id = DictSet(@, id, left)], id)
    ELSE [s EXCEPT !.stopping_objects_by_id = DictSet(@, id, left)]

\* Variant of on_object_cleanup_complete that keeps the set the defaultdict
\* made for an id that had none.
do_on_object_cleanup_complete_touching(s, id, obj) ==
    LET left == DefaultGet(s.stopping_objects_by_id, id) \ {obj} IN
    IF id \notin DOMAIN s.stopping_objects_by_id
    THEN [s EXCEPT !.stopping_objects_by_id = DictSet(@, id, {})]
    ELSE IF left = {}
    THEN maybe_start([s EXCEPT !.stopping_objects_by_id = DictPop(@, id)], id)
    ELSE [s EXCEPT !.stopping_objects_by_id = DictSet(@, id, left)]

\* Variant of on_object_cleanup_complete that forgets the stopped object
\* without trying to start its successor.
do_on_object_cleanup_complete_only(s, id, obj) ==
    LET left == DefaultGet(s.stopping_objects_by_id, id) \ {obj} IN
    IF left = {}
    THEN [s EXCEPT !.stopping_objects_by_id = DictPop(@, id)]
    ELSE [s EXCEPT !.stopping_objects_by_id = DictSet(@, id, left)]

\* The body of on_object_cleanup_complete.
do_on_object_cleanup_complete(s, id, obj) ==
    LET left == DefaultGet(s.stopping_objects_by_id, id) \ {obj} IN
    IF left = {}
    THEN maybe_start([s EXCEPT !.stopping_objects_by_id = DictPop(@, id)], id)
    ELSE [s EXCEPT !.stopping_objects_by_id = DictSet(@, id, left)]

\* The manager's actor loop takes the next message off its mailbox and runs
\* the handler it names.
Handling(type) ==
    /\ ~mgr_failed
    /\ mgr_queue # <<>>
    /\ Head(mgr_queue).type = type
    /\ mgr_queue' = Tail(mgr_queue)

\* History kept beside the handlers: per-object counters start at zero
\* when an object is constructed.
Grown(seq, zero) == IF Len(obj_id') > Len(obj_id) THEN Append(seq, zero) ELSE seq

get_and_incref ==
    /\ Handling("get_and_incref")
    /\ LET m == Head(mgr_queue) IN
       /\ Commit(do_get_and_incref(MgrState, m.object_id, m.callback))
       /\ notify_ready_calls' = Grown(notify_ready_calls, 0)
       /\ unref_handled' = Grown(unref_handled, 0)
       /\ decref_count' = Grown(decref_count, 0)
       /\ created_draining' =
              Grown(created_draining, m.object_id \in DOMAIN stopping_objects_by_id)
       /\ incref_count' = IF m.object_id \in DOMAIN objects_by_id'
                          THEN [Grown(incref_count, 0) EXCEPT
                                   ![objects_by_id'[m.object_id]] = @ + 1]
                          ELSE Grown(incref_count, 0)
    /\ UNCHANGED <<helper_vars, client_held, requested, discarded>>

on_object_startup_complete ==
    /\ Handling("on_object_startup_complete")
    /\ LET m == Head(mgr_queue) IN
       Commit(do_on_object_startup_complete(MgrState, m.object_id, m.obj))
    /\ UNCHANGED <<helper_vars, client_held, requested, hist_vars,
                   notify_ready_calls, unref_handled>>

decref ==
    /\ Handling("decref")
    /\ LET id == Head(mgr_queue).object_id IN
       /\ Commit(do_decref(MgrState, id))
       /\ decref_count' = IF id \in DOMAIN objects_by_id
                          THEN [decref_count EXCEPT ![objects_by_id[id]] = @ + 1]
                          ELSE decref_count
       /\ discarded' = discarded \cup (DefaultGet(pending_ref_callbacks, id)
                                          \ DefaultGet(pending_ref_callbacks', id))
    /\ UNCHANGED <<helper_vars, client_held, requested, incref_count,
                   created_draining, notify_ready_calls, unref_handled>>

on_object_cleanup_complete ==
    /\ Handling("on_object_cleanup_complete")
    /\ LET m == Head(mgr_queue) IN
       Commit(do_on_object_cleanup_complete(MgrState, m.object_id, m.obj))
    /\ UNCHANGED <<helper_vars, client_held, requested, hist_vars,
                   notify_ready_calls, unref_handled>>

ManagerStep ==
    \/ get_and_incref
    \/ on_object_startup_complete
    \/ decref
    \/ on_object_cleanup_complete

\* --------------------------------------------------- the managed objects
\* A started object calls _notify_ready once its startup is complete: the
\* spawned greenlet puts on_object_startup_complete on the manager's mailbox.
notify_ready(obj) ==
    /\ notify_ready_calls[obj] < start_calls[obj]
    /\ notify_ready_calls' = [notify_ready_calls EXCEPT ![obj] = @ + 1]
    /\ mgr_queue' = Append(mgr_queue,
           Msg("on_object_startup_complete", obj_id[obj], NoCallback, obj))
    /\ UNCHANGED <<mgr_vars, hist_vars, helper_vars, client_held, unref_handled,
                   requested, dispatched>>

\* on_unreferenced: the object handles the message and calls
\* _notify_cleanup_complete, which puts on_object_cleanup_complete on the
\* manager's mailbox.
on_unreferenced(obj) ==
    /\ unref_handled[obj] < unref_sent[obj]
    /\ unref_handled' = [unref_handled EXCEPT ![obj] = @ + 1]
    /\ mgr_queue' = Append(mgr_queue,
           Msg("on_object_cleanup_complete", obj_id[obj], NoCallback, obj))
    /\ UNCHANGED <<mgr_vars, hist_vars, helper_vars, client_held,
                   notify_ready_calls, requested, dispatched>>

\* The calls an object made beyond its first.
RECURSIVE Repeats(_)
Repeats(calls) ==
    IF calls = <<>> THEN 0
    ELSE (IF Head(calls) > 1 THEN Head(calls) - 1 ELSE 0) + Repeats(Tail(calls))

DuplicateUpcalls == Repeats(notify_ready_calls) + Repeats(unref_handled)

\* An object that has called _notify_ready calls it again.
notify_ready_again(obj) ==
    /\ notify_ready_calls[obj] >= 1
    /\ DuplicateUpcalls < MaxDuplicateUpcalls
    /\ notify_ready_calls' = [notify_ready_calls EXCEPT ![obj] = @ + 1]
    /\ mgr_queue' = Append(mgr_queue,
           Msg("on_object_startup_complete", obj_id[obj], NoCallback, obj))
    /\ UNCHANGED <<mgr_vars, hist_vars, helper_vars, client_held, unref_handled,
                   requested, dispatched>>

\* An object that has called _notify_cleanup_complete calls it again.
notify_cleanup_complete_again(obj) ==
    /\ unref_handled[obj] >= 1
    /\ DuplicateUpcalls < MaxDuplicateUpcalls
    /\ unref_handled' = [unref_handled EXCEPT ![obj] = @ + 1]
    /\ mgr_queue' = Append(mgr_queue,
           Msg("on_object_cleanup_complete", obj_id[obj], NoCallback, obj))
    /\ UNCHANGED <<mgr_vars, hist_vars, helper_vars, client_held,
                   notify_ready_calls, requested, dispatched>>

\* ------------------------------------------- direct clients of the manager
\* A consumer calling get_and_incref(id, callback, async=True) itself.
ClientAcquire(id, callback) ==
    /\ Len(dispatched) < MaxAcquires
    /\ mgr_queue' = Append(mgr_queue, Msg("get_and_incref", id, callback, 0))
    /\ requested' = Append(requested, Msg("get_and_incref", id, callback, 0))
    /\ dispatched' = Append(dispatched, 0)
    /\ client_held' = [client_held EXCEPT ![id] = @ + 1]
    /\ UNCHANGED <<mgr_vars, hist_vars, helper_vars, notify_ready_calls, unref_handled>>

\* A consumer returning a reference it took earlier.
ClientRelease(id) ==
    /\ client_held[id] > 0
    /\ mgr_queue' = Append(mgr_queue, Msg("decref", id, NoCallback, 0))
    /\ client_held' = [client_held EXCEPT ![id] = @ - 1]
    /\ UNCHANGED <<mgr_vars, hist_vars, helper_vars, notify_ready_calls,
                   unref_handled, requested, dispatched>>

\* A faulty consumer calling decref for a reference it does not hold.
StrayRelease(id) ==
    /\ client_held[id] <= 0
    /\ client_held[id] > -MaxStrayReleases
    /\ mgr_queue' = Append(mgr_queue, Msg("decref", id, NoCallback, 0))
    /\ client_held' = [client_held EXCEPT ![id] = @ - 1]
    /\ UNCHANGED <<mgr_vars, hist_vars, helper_vars, notify_ready_calls,
                   unref_handled, requested, dispatched>>

\* The greenlet spawned for a callback runs.  A helper's callback is
\* on_ref_acquired(async=True): it lands on the mailbox of the helper's actor.
RunCallback(t) ==
    /\ t \in spawned
    /\ spawned' = spawned \ {t}
    /\ actor_queue' = IF t.cb.target \in Helpers
                      THEN [actor_queue EXCEPT ![t.cb.target] =
                               Append(@, [object_id |-> t.object_id, obj |-> t.obj])]
                      ELSE actor_queue
    /\ UNCHANGED <<objects_by_id, stopping_objects_by_id, pending_ref_callbacks,
                   mgr_queue, mgr_failed, obj_id, ref_mgmt_state, ref_count,
                   start_calls, notify_ready_calls, unref_sent, unref_handled,
                   required_refs, pending_increfs, acquired_refs,
                   ready_callback_calls, client_held, requested, dispatched,
                   hist_vars, increfs_sent, decrefs_sent>>

\* ------------------------------------------------------------ RefHelper
\* The ready property: the sizes of required_refs and acquired_refs agree.
ready(required, acquired) == Cardinality(required) = Cardinality(DOMAIN acquired)

\* The helper state a method reads and writes; out collects the messages the
\* method sends to the manager, in order.
HelperState(h) ==
    [required_refs |-> required_refs[h],
     pending_increfs |-> pending_increfs[h],
     acquired_refs |-> acquired_refs[h],
     increfs_sent |-> increfs_sent[h],
     decrefs_sent |-> decrefs_sent[h],
     ready_callback_calls |-> ready_callback_calls[h],
     out |-> <<>>]

IsIncref(m) == m.type = "get_and_incref"

Increfs(out) == SelectSeq(out, IsIncref)

HelperCommit(h, hs) ==
    /\ required_refs' = [required_refs EXCEPT ![h] = hs.required_refs]
    /\ pending_increfs' = [pending_increfs EXCEPT ![h] = hs.pending_increfs]
    /\ acquired_refs' = [acquired_refs EXCEPT ![h] = hs.acquired_refs]
    /\ increfs_sent' = [increfs_sent EXCEPT ![h] = hs.increfs_sent]
    /\ decrefs_sent' = [decrefs_sent EXCEPT ![h] = hs.decrefs_sent]
    /\ ready_callback_calls' = [ready_callback_calls EXCEPT ![h] = hs.ready_callback_calls]
    /\ mgr_queue' = mgr_queue \o hs.out
    /\ requested' = requested \o Increfs(hs.out)
    /\ dispatched' = dispatched \o [i \in 1..Len(Increfs(hs.out)) |-> 0]

\* The callback acquire_ref builds: functools.partial(self.on_ref_acquired, async=True).
HelperCallback(h) == [target |-> h, n |-> Len(dispatched) + 1]

\* Variant of acquire_ref that asks the manager again although an earlier
\* request for the id is still outstanding.
do_acquire_ref_resending(hs, h, id) ==
    IF id \in hs.required_refs
    THEN hs
    ELSE [hs EXCEPT !.required_refs = @ \cup {id},
                    !.pending_increfs = @ \cup {id},
                    !.increfs_sent[id] = @ + 1,
                    !.out = Append(@, Msg("get_and_incref", id, HelperCallback(h), 0))]

\* The body of acquire_ref.
do_acquire_ref(hs, h, id) ==
    IF id \in hs.required_refs
    THEN hs
    ELSE LET hs1 == [hs EXCEPT !.required_refs = @ \cup {id}] IN
         IF id \in hs1.pending_increfs
         THEN hs1
         ELSE [hs1 EXCEPT !.pending_increfs = @ \cup {id},
                          !.increfs_sent[id] = @ + 1,
                          !.out = Append(@, Msg("get_and_incref", id, HelperCallback(h), 0))]

\* Variant of discard_ref that does not look whether the id is required.
do_discard_ref_unguarded(hs, id) ==
    LET hs1 == [hs EXCEPT !.required_refs = @ \ {id},
                          !.acquired_refs = DictPop(@, id)]
    IN  IF id \in hs1.pending_increfs
        THEN hs1
        ELSE [hs1 EXCEPT !.decrefs_sent[id] = @ + 1,
                         !.out = Append(@, Msg("decref", id, NoCallback, 0))]

\* Variant of discard_ref that leaves the object in acquired_refs.
do_discard_ref_keeping(hs, id) ==
    IF id \notin hs.required_refs
    THEN hs
    ELSE LET hs1 == [hs EXCEPT !.required_refs = @ \ {id}] IN
         IF id \in hs1.pending_increfs
         THEN hs1
         ELSE [hs1 EXCEPT !.decrefs_sent[id] = @ + 1,
                          !.out = Append(@, Msg("decref", id, NoCallback, 0))]

\* Variant of discard_ref that sends decref even while the incref is
\* outstanding.
do_discard_ref_eager(hs, id) ==
    IF id \notin hs.required_refs
    THEN hs
    ELSE [hs EXCEPT !.required_refs = @ \ {id},
                    !.acquired_refs = DictPop(@, id),
                    !.decrefs_sent[id] = @ + 1,
                    !.out = Append(@, Msg("decref", id, NoCallback, 0))]

\* The body of discard_ref.
do_discard_ref(hs, id) ==
    IF id \notin hs.required_refs
    THEN hs
    ELSE LET hs1 == [hs EXCEPT !.required_refs = @ \ {id},
                               !.acquired_refs = DictPop(@, id)]
         IN  IF id \in hs1.pending_increfs
             THEN hs1
             ELSE [hs1 EXCEPT !.decrefs_sent[id] = @ + 1,
                              !.out = Append(@, Msg("decref", id, NoCallback, 0))]

\* discard_all: discard_ref for each id of list(self.required_refs), in the
\* order the list happens to have.
RECURSIVE discard_each(_, _)
discard_each(hs, ids) ==
    IF ids = <<>> THEN hs
    ELSE discard_each(do_discard_ref(hs, Head(ids)), Tail(ids))

Orderings(S) ==
    {seq \in [1..Cardinality(S) -> S] : \A i, j \in 1..Cardinality(S) :
                                           seq[i] = seq[j] => i = j}

\* Variant of on_ref_acquired that calls the ready callback whenever the
\* helper is ready afterwards.
do_on_ref_acquired_always_calling(hs, id, obj) ==
    LET hs1 == [hs EXCEPT !.pending_increfs = @ \ {id}]
        hs2 == IF id \in hs1.required_refs
               THEN [hs1 EXCEPT !.acquired_refs = DictSet(@, id, obj)]
               ELSE [hs1 EXCEPT !.decrefs_sent[id] = @ + 1,
                                !.out = Append(@, Msg("decref", id, NoCallback, 0))]
        now_ready == ready(hs2.required_refs, hs2.acquired_refs)
    IN  IF now_ready
        THEN [hs2 EXCEPT !.ready_callback_calls = @ + 1]
        ELSE hs2

\* The body of on_ref_acquired.  (The decref on line 273 is written without
\* async=True; it is taken to reach the manager's mailbox like the others.)
do_on_ref_acquired(hs, id, obj) ==
    LET was_ready == ready(hs.required_refs, hs.acquired_refs)
        hs1 == [hs EXCEPT !.pending_increfs = @ \ {id}]
        hs2 == IF id \in hs1.required_refs
               THEN [hs1 EXCEPT !.acquired_refs = DictSet(@, id, obj)]
               ELSE [hs1 EXCEPT !.decrefs_sent[id] = @ + 1,
                                !.out = Append(@, Msg("decref", id, NoCallback, 0))]
        now_ready == ready(hs2.required_refs, hs2.acquired_refs)
    IN  IF ~was_ready /\ now_ready
        THEN [hs2 EXCEPT !.ready_callback_calls = @ + 1]
        ELSE hs2

helper_frame ==
    UNCHANGED <<mgr_vars, hist_vars, actor_queue, client_held, notify_ready_calls,
                unref_handled>>

acquire_ref(h, id) ==
    /\ (id \notin required_refs[h] /\ id \notin pending_increfs[h])
          => Len(dispatched) < MaxHelperAcquires
    /\ HelperCommit(h, do_acquire_ref(HelperState(h), h, id))
    /\ helper_frame

discard_ref(h, id) ==
    /\ HelperCommit(h, do_discard_ref(HelperState(h), id))
    /\ helper_frame

discard_all(h) ==
    /\ \E ids \in Orderings(required_refs[h]) :
          HelperCommit(h, discard_each(HelperState(h), ids))
    /\ helper_frame

\* The helper's actor takes the next on_ref_acquired off its mailbox.
on_ref_acquired(h) ==
    /\ actor_queue[h] # <<>>
    /\ actor_queue' = [actor_queue EXCEPT ![h] = Tail(@)]
    /\ LET m == Head(actor_queue[h]) IN
       HelperCommit(h, do_on_ref_acquired(HelperState(h), m.object_id, m.obj))
    /\ UNCHANGED <<mgr_vars, hist_vars, client_held, notify_ready_calls, unref_handled>>

\* ------------------------------------------------------------------ Init
Init ==
    /\ objects_by_id = EmptyDict
    /\ stopping_objects_by_id = EmptyDict
    /\ pending_ref_callbacks = EmptyDict
    /\ mgr_queue = <<>>
    /\ mgr_failed = FALSE
    /\ obj_id = <<>>
    /\ ref_mgmt_state = <<>>
    /\ ref_count = <<>>
    /\ start_calls = <<>>
    /\ notify_ready_calls = <<>>
    /\ unref_sent = <<>>
    /\ unref_handled = <<>>
    /\ spawned = {}
    /\ required_refs = [h \in Helpers |-> {}]
    /\ pending_increfs = [h \in Helpers |-> {}]
    /\ acquired_refs = [h \in Helpers |-> EmptyDict]
    /\ actor_queue = [h \in Helpers |-> <<>>]
    /\ ready_callback_calls = [h \in Helpers |-> 0]
    /\ client_held = [id \in Ids |-> 0]
    /\ requested = <<>>
    /\ dispatched = <<>>
    /\ discarded = {}
    /\ incref_count = <<>>
    /\ decref_count = <<>>
    /\ created_draining = <<>>
    /\ increfs_sent = [h \in Helpers |-> [id \in Ids |-> 0]]
    /\ decrefs_sent = [h \in Helpers |-> [id \in Ids |-> 0]]

\* ---------------------------------- the manager used by direct clients
ClientCallback == [target |-> Client, n |-> Len(dispatched) + 1]

Next ==
    \/ \E id \in ClientIds : ClientAcquire(id, ClientCallback)
    \/ \E id \in ClientIds : ClientAcquire(id, NoCallback)
    \/ \E id \in ClientIds : ClientRelease(id)
    \/ ManagerStep
    \/ \E obj \in Objs : notify_ready(obj)
    \/ \E obj \in Objs : on_unreferenced(obj)
    \/ \E t \in spawned : RunCallback(t)

Spec == Init /\ [][Next]_vars

\* Scheduling: every actor keeps draining its mailbox, every spawned greenlet
\* runs, every started object reports startup complete and every
\* unreferenced object reports cleanup complete.  The clients are free to
\* stop calling at any point.
Scheduling ==
    /\ WF_vars(ManagerStep)
    /\ WF_vars(\E obj \in Objs : notify_ready(obj))
    /\ WF_vars(\E obj \in Objs : on_unreferenced(obj))
    /\ WF_vars(\E t \in spawned : RunCallback(t))

FairSpec == Spec /\ Scheduling

\* ------------------------- the manager used by a client that over-releases
ContractNext ==
    \/ Next
    \/ \E id \in ClientIds : StrayRelease(id)

ContractSpec == Init /\ [][ContractNext]_vars

\* --------------------- the manager with objects that repeat their upcalls
UpcallNext ==
    \/ Next
    \/ \E obj \in Objs : notify_ready_again(obj)
    \/ \E obj \in Objs : notify_cleanup_complete_again(obj)

UpcallSpec == Init /\ [][UpcallNext]_vars

\* ------------------------------------- the manager used through helpers
HelperNext ==
    \/ \E h \in Helpers, id \in Ids : acquire_ref(h, id)
    \/ \E h \in Helpers, id \in Ids : discard_ref(h, id)
    \/ \E h \in Helpers : discard_all(h)
    \/ \E h \in Helpers : on_ref_acquired(h)
    \/ ManagerStep
    \/ \E obj \in Objs : notify_ready(obj)
    \/ \E obj \in Objs : on_unreferenced(obj)
    \/ \E t \in spawned : RunCallback(t)

HelperSpec == Init /\ [][HelperNext]_vars

\* The same scheduling, and the actor of every helper keeps draining its
\* mailbox.  The owners of the helpers are free to stop calling at any point.
FairHelperSpec ==
    /\ HelperSpec
    /\ Scheduling
    /\ \A h \in Helpers : WF_vars(on_ref_acquired(h))

\* ======================================================== properties
\* The current instance of id, and whether it is in one of the given states.
HasCurrent(id) == id \in DOMAIN objects_by_id

CurrentIn(id, states) ==
    HasCurrent(id) /\ ref_mgmt_state[objects_by_id[id]] \in states

Draining(id) == DefaultGet(stopping_objects_by_id, id)

\* start() was called on obj in this step.
StartedNow(obj) ==
    start_calls'[obj] > (IF obj \in Objs THEN start_calls[obj] ELSE 0)

\* The manager handled a message of the given type in this step.
Handled(type) ==
    /\ mgr_queue # <<>>
    /\ Head(mgr_queue).type = type
    /\ mgr_queue' = Tail(mgr_queue)

\* ---------------------------------------------------------------- C1
NoOverlap ==
    \A id \in Ids : CurrentIn(id, {STARTING, LIVE}) => Draining(id) = {}

StartOnlyWhenDrained ==
    \A obj \in 1..Len(start_calls') :
        StartedNow(obj) =>
            /\ DefaultGet(stopping_objects_by_id', obj_id'[obj]) = {}
            /\ ref_mgmt_state'[obj] \in {STARTING, LIVE}
            /\ obj \in Objs => ref_mgmt_state[obj] = CREATED

\* C1: generations of one identifier never overlap in active use.  While the
\* current instance of an id is STARTING or LIVE nothing is draining for that
\* id, and start() is called on a CREATED instance only in a step that leaves
\* nothing draining for its id; an instance created while its predecessor is
\* STOPPING therefore stays CREATED until the cleanup-complete is handled.
C1_GenerationsNeverOverlap == []NoOverlap /\ [][StartOnlyWhenDrained]_vars

\* A second generation that was created while the first was draining and has
\* been started and gone LIVE since.
C1_Witness ==
    \E obj \in Objs :
        /\ created_draining[obj]
        /\ ref_mgmt_state[obj] = LIVE
        /\ Draining(obj_id[obj]) = {}

\* ---------------------------------------------------------------- C2
\* Callbacks whose greenlet was spawned in this step.
DispatchedNow ==
    {n \in 1..Len(dispatched) : dispatched'[n] > dispatched[n]}

DispatchOnlyWhenLive ==
    \A n \in DispatchedNow :
        LET id == requested[n].object_id IN
        /\ requested[n].callback # NoCallback
        /\ dispatched'[n] = 1
        /\ id \in DOMAIN objects_by_id'
        /\ ref_mgmt_state'[objects_by_id'[id]] = LIVE
        /\ [cb |-> requested[n].callback, object_id |-> id,
            obj |-> objects_by_id'[id]] \in spawned'
        /\ \A t \in spawned' \ spawned :
              t.cb = requested[n].callback =>
                  t.object_id = id /\ t.obj = objects_by_id'[id]
        /\ id \notin DOMAIN pending_ref_callbacks'

\* C2: a callback registered by get_and_incref(id, cb) is spawned only in a
\* step that ends with the current instance of id LIVE, with exactly that
\* instance as argument, at most once, and the step leaves no pending
\* callbacks for id.
C2_CallbackOnlyWhenLive ==
    /\ [](\A n \in 1..Len(dispatched) : dispatched[n] <= 1)
    /\ [][DispatchOnlyWhenLive]_vars

\* Two callbacks for one id, both spawned with the current, LIVE instance.
C2_Witness ==
    \E t1, t2 \in spawned :
        /\ t1.cb # t2.cb
        /\ t1.object_id = t2.object_id
        /\ t1.obj = t2.obj
        /\ CurrentIn(t1.object_id, {LIVE})
        /\ objects_by_id[t1.object_id] = t1.obj
        /\ dispatched[t1.cb.n] = 1 /\ dispatched[t2.cb.n] = 1

\* ---------------------------------------------------------------- C3
\* Request n was sent with a callback.
Registered(n) == n <= Len(requested) /\ requested[n].callback # NoCallback

FiredOnce(n) == n <= Len(dispatched) /\ dispatched[n] = 1

Discarded(n) == n <= Len(requested) /\ requested[n].callback \in discarded

\* C3 as stated: every callback passed to get_and_incref is eventually
\* spawned, exactly once.
C3_EveryCallbackFires ==
    \A n \in 1..MaxAcquires : Registered(n) ~> FiredOnce(n)

\* C3 amended: a callback passed to get_and_incref is never spawned twice,
\* and it is eventually spawned once unless a decref brings the count of its
\* id to zero while it is still pending, which discards it for good.
C3_CallbackFiresUnlessDiscarded ==
    /\ [](\A n \in 1..Len(dispatched) :
             /\ dispatched[n] <= 1
             /\ FiredOnce(n) => ~Discarded(n))
    /\ \A n \in 1..MaxAcquires :
          Registered(n) ~> (FiredOnce(n) \/ Discarded(n))

\* Several requests for one id arrived before LIVE and their callbacks are
\* all spawned, together, with the same instance.
C3_Witness ==
    \E n1, n2 \in 1..Len(dispatched) :
        /\ n1 < n2
        /\ Registered(n1) /\ Registered(n2)
        /\ requested[n1].object_id = requested[n2].object_id
        /\ dispatched[n1] = 1 /\ dispatched[n2] = 1
        /\ \E obj \in Objs :
              /\ incref_count[obj] >= 2
              /\ notify_ready_calls[obj] = 1
              /\ {[cb |-> requested[n].callback, object_id |-> obj_id[obj], obj |-> obj]
                     : n \in {n1, n2}} \subseteq spawned

\* ---------------------------------------------------------------- C4
ReleasesMatchAcquires ==
    \A h \in Helpers, id \in Ids :
        /\ decrefs_sent[h][id] <= increfs_sent[h][id]
        /\ (id \notin pending_increfs[h] /\ id \notin required_refs[h])
              => decrefs_sent[h][id] = increfs_sent[h][id]

\* The helper's actor handled an on_ref_acquired message in this step.
RefAcquiredNow(h) ==
    actor_queue[h] # <<>> /\ actor_queue'[h] = Tail(actor_queue[h])

DeferredRelease ==
    \A h \in Helpers, id \in Ids :
        \* discard_ref while the incref is outstanding sends nothing
        /\ (id \in required_refs[h] /\ id \notin required_refs'[h]
               /\ id \in pending_increfs[h])
              => /\ decrefs_sent'[h][id] = decrefs_sent[h][id]
                 /\ \A i \in Len(mgr_queue) + 1 .. Len(mgr_queue') :
                       mgr_queue'[i] # Msg("decref", id, NoCallback, 0)
        \* the callback for a discarded id sends exactly one decref
        /\ (RefAcquiredNow(h) /\ Head(actor_queue[h]).object_id = id
               /\ id \notin required_refs[h])
              => /\ decrefs_sent'[h][id] = decrefs_sent[h][id] + 1
                 /\ mgr_queue' = Append(mgr_queue, Msg("decref", id, NoCallback, 0))
                 /\ id \notin pending_increfs'[h]

\* C4: discard_ref while the incref is outstanding sends no decref, and the
\* on_ref_acquired that later finds the id no longer required sends exactly
\* one; under every interleaving a helper has sent no more decrefs than
\* increfs for an id, and as many once the id is neither pending nor required.
C4_AcquireDiscardRace == []ReleasesMatchAcquires /\ [][DeferredRelease]_vars

\* The race has run its course: the helper asked for the id once, never had
\* it acquired (its ready callback never ran), and has sent its one decref.
C4_Witness ==
    \E h \in Helpers, id \in Ids :
        /\ increfs_sent[h][id] = 1 /\ decrefs_sent[h][id] = 1
        /\ \A other \in Ids \ {id} : increfs_sent[h][other] = 0
        /\ ready_callback_calls[h] = 0
        /\ required_refs[h] = {} /\ pending_increfs[h] = {}

\* ---------------------------------------------------------------- C5
CountMatchesCalls ==
    \A id \in DOMAIN objects_by_id :
        LET obj == objects_by_id[id] IN
        /\ ref_count[obj] = incref_count[obj] - decref_count[obj]
        /\ ref_count[obj] >= 0

ZeroRemovesNow ==
    /\ \A obj \in Objs : ref_count'[obj] >= 0
    /\ \A id \in DOMAIN objects_by_id :
          ref_count'[objects_by_id[id]] = 0 => id \notin DOMAIN objects_by_id'

\* C5: the ref_count of a current instance is the number of get_and_incref
\* calls handled for it minus the number of decref calls handled for it and
\* is never negative, and the decref that takes it to zero removes the id
\* from objects_by_id in the same step.
C5_RefCountIsAcquiresMinusReleases == []CountMatchesCalls /\ [][ZeroRemovesNow]_vars

\* An instance that was referenced twice, released twice and is gone from
\* objects_by_id.
C5_Witness ==
    \E obj \in Objs :
        /\ incref_count[obj] = 2 /\ decref_count[obj] = 2
        /\ ref_count[obj] = 0
        /\ obj_id[obj] \notin DOMAIN objects_by_id

\* ---------------------------------------------------------------- C6
\* _create was called in this step (for the id of the new, last object).
CreatedNow == Len(obj_id') > Len(obj_id)

NewObj == Len(obj_id')

\* C6 as stated: _create is never called for an id while
\* stopping_objects_by_id still holds an instance for that id.
C6_NoCreateWhileDraining ==
    [][CreatedNow => obj_id'[NewObj] \notin DOMAIN stopping_objects_by_id]_vars

\* C6 amended: _create is called for an id only in a step that finds no
\* current instance for it; it may be called while stopping_objects_by_id
\* still holds an instance for the id, and the new instance is then left
\* CREATED, with start() not called.
C6_CreateOnlyWithoutCurrent ==
    [][CreatedNow =>
          LET id == obj_id'[NewObj] IN
          /\ Handled("get_and_incref") /\ Head(mgr_queue).object_id = id
          /\ id \notin DOMAIN objects_by_id
          /\ objects_by_id'[id] = NewObj
          /\ Len(obj_id') = Len(obj_id) + 1
          /\ Draining(id) # {} =>
                /\ ref_mgmt_state'[NewObj] = CREATED
                /\ start_calls'[NewObj] = 0
                /\ stopping_objects_by_id' = stopping_objects_by_id]_vars

\* A second generation constructed while the first is still draining: it is
\* current and CREATED, the first is STOPPING.
C6_Witness ==
    \E id \in DOMAIN objects_by_id :
        /\ created_draining[objects_by_id[id]]
        /\ ref_mgmt_state[objects_by_id[id]] = CREATED
        /\ \E old \in Draining(id) : ref_mgmt_state[old] = STOPPING

\* ---------------------------------------------------------------- C7
ReuseCurrent ==
    (Handled("get_and_incref") /\ HasCurrent(Head(mgr_queue).object_id)) =>
        LET id == Head(mgr_queue).object_id
            obj == objects_by_id[id]
        IN  /\ ~CreatedNow
            /\ objects_by_id' = objects_by_id
            /\ ref_count' = [ref_count EXCEPT ![obj] = @ + 1]
            /\ start_calls' = start_calls

OneCurrentPerId ==
    \A obj \in Objs :
        /\ start_calls[obj] <= 1
        /\ ref_mgmt_state[obj] # CREATED => start_calls[obj] = 1
        \* one construction per generation: the objects made for an id are
        \* laid off one after the other, only the last may be current
        /\ \A later \in Objs :
              (obj < later /\ obj_id[obj] = obj_id[later]) =>
                  /\ ref_count[obj] = 0
                  /\ ~(HasCurrent(obj_id[obj]) /\ objects_by_id[obj_id[obj]] = obj)

\* C7: get_and_incref for an id that has a current instance reuses that
\* instance and only increments its count: nothing is constructed, and start()
\* is called at most once on any instance.
C7_AcquireReusesInstance == []OneCurrentPerId /\ [][ReuseCurrent]_vars

\* Two requests for A while A is STARTING: one instance, count 2, one start.
C7_Witness ==
    /\ Len(obj_id) = 1
    /\ HasCurrent("A")
    /\ ref_mgmt_state[objects_by_id["A"]] = STARTING
    /\ ref_count[objects_by_id["A"]] = 2
    /\ start_calls[objects_by_id["A"]] = 1

\* ---------------------------------------------------------------- C8
\* C8: with fair scheduling, objects that report startup and cleanup, and
\* helpers that may stop changing their required set at any point, every id
\* a helper requires is eventually in its acquired_refs (or is discarded
\* first): a helper whose required set stays put becomes ready.
C8_RequiredEventuallyAcquired ==
    \A h \in Helpers, id \in Ids :
        (id \in required_refs[h]) ~>
            (id \in DOMAIN acquired_refs[h] \/ id \notin required_refs[h])

\* A helper holds the second generation of an id, constructed while the
\* first, used by the other helper, was still draining.
C8_Witness ==
    \E h \in Helpers, id \in Ids :
        /\ id \in required_refs[h]
        /\ id \in DOMAIN acquired_refs[h]
        /\ created_draining[acquired_refs[h][id]]
        /\ \E other \in Helpers \ {h} : decrefs_sent[other][id] >= 1

\* ---------------------------------------------------------------- C9
\* The value of the helper's ready property.
Ready(h) == ready(required_refs[h], acquired_refs[h])

\* C9: the keys of acquired_refs are always among required_refs, so ready
\* (a comparison of sizes) is true exactly when the two are equal as sets.
C9_ReadyIsSetEquality ==
    \A h \in Helpers :
        /\ DOMAIN acquired_refs[h] \subseteq required_refs[h]
        /\ Ready(h) <=> (required_refs[h] = DOMAIN acquired_refs[h])

\* One helper first held B alone, discarded it and now requires A, still on
\* its way: the sizes differ, and so do the sets.
C9_Witness ==
    \E h \in Helpers :
        /\ required_refs[h] = {"A"}
        /\ acquired_refs[h] = EmptyDict
        /\ decrefs_sent[h]["B"] = 1
        /\ ~Ready(h)

\* --------------------------------------------------------------- C10
ReadyCallbackNow(h) == ready_callback_calls'[h] # ready_callback_calls[h]

BecameReady(h) == ~Ready(h) /\ Ready(h)'

\* C10 as stated: every step that takes a helper from not ready to ready
\* calls its ready callback once.
C10_EveryReadyTransitionCallsBack ==
    [][\A h \in Helpers :
          BecameReady(h) => ready_callback_calls'[h] = ready_callback_calls[h] + 1]_vars

\* C10 amended: the ready callback is called once by every on_ref_acquired
\* that takes the helper from not ready to ready and by no other step, so
\* only with every required id in acquired_refs; a discard_ref or discard_all
\* that makes the helper ready calls nothing.
C10_ReadyCallbackOnAcquire ==
    [][\A h \in Helpers :
          /\ (RefAcquiredNow(h) /\ BecameReady(h))
                => ready_callback_calls'[h] = ready_callback_calls[h] + 1
          /\ ReadyCallbackNow(h) =>
                /\ RefAcquiredNow(h) /\ BecameReady(h)
                /\ ready_callback_calls'[h] = ready_callback_calls[h] + 1
                /\ required_refs'[h] = DOMAIN acquired_refs'[h]
          /\ (~RefAcquiredNow(h) /\ BecameReady(h))
                => ready_callback_calls'[h] = ready_callback_calls[h]]_vars

\* A helper that required two ids got the second one and was called back,
\* once, with both in acquired_refs.
C10_Witness ==
    \E h \in Helpers :
        /\ required_refs[h] = Ids
        /\ DOMAIN acquired_refs[h] = Ids
        /\ ready_callback_calls[h] = 1

\* --------------------------------------------------------------- C11
\* The get_and_incref requests of helper h for id that are on their way:
\* in the manager's mailbox, pending in the manager, spawned, or waiting in
\* the mailbox of the helper's actor as on_ref_acquired.
InFlight(h, id) ==
    Cardinality({i \in 1..Len(mgr_queue) :
                    /\ mgr_queue[i].type = "get_and_incref"
                    /\ mgr_queue[i].object_id = id
                    /\ mgr_queue[i].callback.target = h})
    + Cardinality({cb \in DefaultGet(pending_ref_callbacks, id) : cb.target = h})
    + Cardinality({t \in spawned : t.object_id = id /\ t.cb.target = h})
    + Cardinality({i \in 1..Len(actor_queue[h]) : actor_queue[h][i].object_id = id})

OneInFlight ==
    \A h \in Helpers, id \in Ids :
        InFlight(h, id) = IF id \in pending_increfs[h] THEN 1 ELSE 0

\* The messages a helper method appended to what was sent before it.
SentBy(before, after) == SubSeq(after.out, Len(before.out) + 1, Len(after.out))

\* What repeated calls do, from the helper's present state.
RepeatedCalls ==
    \A h \in Helpers, id \in Ids :
        LET hs == HelperState(h)
            a1 == do_acquire_ref(hs, h, id)
            a2 == do_acquire_ref(a1, h, id)
            d1 == do_discard_ref(hs, id)
            d2 == do_discard_ref(d1, id)
            a3 == do_acquire_ref(d1, h, id)
        IN  \* acquire_ref twice: at most one request, the second call is a no-op
            /\ a2 = a1
            /\ id \in a1.required_refs
            /\ Len(SelectSeq(a1.out, IsIncref)) <= 1
            /\ \A i \in 1..Len(a1.out) :
                  a1.out[i] = Msg("get_and_incref", id, a1.out[i].callback, 0)
            \* discard_ref twice: at most one decref, the second call is a no-op
            /\ d2 = d1
            /\ Len(d1.out) <= 1
            /\ \A i \in 1..Len(d1.out) : d1.out[i] = Msg("decref", id, NoCallback, 0)
            \* acquire_ref after a discard_ref, the request still outstanding
            /\ id \in d1.pending_increfs =>
                  /\ SentBy(d1, a3) = <<>>
                  /\ id \in a3.required_refs

SendsOnlyWhenNeeded ==
    \A h \in Helpers, id \in Ids :
        /\ increfs_sent'[h][id] \in {increfs_sent[h][id], increfs_sent[h][id] + 1}
        /\ decrefs_sent'[h][id] \in {decrefs_sent[h][id], decrefs_sent[h][id] + 1}
        /\ increfs_sent'[h][id] # increfs_sent[h][id] =>
              /\ id \notin required_refs[h] /\ id \notin pending_increfs[h]
              /\ id \in required_refs'[h] /\ id \in pending_increfs'[h]
        /\ (decrefs_sent'[h][id] # decrefs_sent[h][id] /\ ~RefAcquiredNow(h)) =>
              /\ id \in required_refs[h] /\ id \notin pending_increfs[h]
              /\ id \notin required_refs'[h]

\* C11: the helper's calls are idempotent.  From every reachable state,
\* acquire_ref(id) twice sends at most one get_and_incref and leaves id in
\* required_refs, discard_ref(id) twice sends at most one decref, and
\* acquire_ref(id) after a discard_ref that found the request outstanding
\* sends nothing; a helper sends get_and_incref only for an id that is
\* neither required nor pending, so at most one request per helper and id
\* is in flight, and that exactly while the id is in pending_increfs.
C11_HelperIdempotence ==
    /\ [](OneInFlight /\ RepeatedCalls)
    /\ [][SendsOnlyWhenNeeded]_vars

\* The helper asked for the id once and discarded it while the request was
\* outstanding: the id is pending and no longer required, the one answer
\* waits in the mailbox of the helper's actor, and no decref has been sent.
\* This is the state from which the acquire_ref of RepeatedCalls sends nothing.
C11_Witness ==
    \E h \in Helpers, id \in Ids :
        /\ id \notin required_refs[h]
        /\ id \in pending_increfs[h]
        /\ increfs_sent[h][id] = 1
        /\ decrefs_sent[h][id] = 0
        /\ InFlight(h, id) = 1
        /\ \E i \in 1..Len(actor_queue[h]) : actor_queue[h][i].object_id = id

\* --------------------------------------------------------------- C12
\* What the manager keeps about the objects.
ManagerTables ==
    <<objects_by_id, stopping_objects_by_id, pending_ref_callbacks,
      ref_mgmt_state, ref_count, start_calls, unref_sent>>

ReleaseWithoutCurrent ==
    /\ (Handled("decref") /\ ~mgr_failed) =>
          LET id == Head(mgr_queue).object_id IN
          \* no object that is being cleaned up has its count changed
          /\ \A obj \in Objs :
                ref_mgmt_state[obj] = STOPPING => ref_count'[obj] = ref_count[obj]
          /\ (~HasCurrent(id)) =>
                (mgr_failed' /\ UNCHANGED ManagerTables /\ spawned' = spawned)
          /\ HasCurrent(id) => ~mgr_failed'
    \* the assertion is the only way to fail, and nothing is handled after it
    /\ mgr_failed' # mgr_failed =>
          Handled("decref") /\ ~HasCurrent(Head(mgr_queue).object_id)
    /\ mgr_failed => (mgr_failed' /\ UNCHANGED ManagerTables)

\* C12: decref for an id with no current object fails the assertion on line
\* 106 before anything is written: objects_by_id, stopping_objects_by_id,
\* pending_ref_callbacks and every object's state and count are unchanged,
\* also when an object of that id is STOPPING; the manager handles nothing
\* after the failure.
C12_ReleaseWithoutCurrentIsFatal == [][ReleaseWithoutCurrent]_vars

\* The manager failed on a decref for an id whose only object is being
\* cleaned up, its count still 0.
C12_Witness ==
    /\ mgr_failed
    /\ \E id \in ClientIds :
          /\ ~HasCurrent(id)
          /\ client_held[id] < 0
          /\ \E obj \in Draining(id) :
                ref_mgmt_state[obj] = STOPPING /\ ref_count[obj] = 0

\* --------------------------------------------------------------- C13
\* obj is the current object of its id.
IsCurrent(obj) == HasCurrent(obj_id[obj]) /\ objects_by_id[obj_id[obj]] = obj

\* The decref handled in this step takes the count of the current object of
\* its id, which is in one of the given states, to zero.
ReleasedToZero(states) ==
    /\ Handled("decref") /\ ~mgr_failed
    /\ CurrentIn(Head(mgr_queue).object_id, states)
    /\ ref_count[objects_by_id[Head(mgr_queue).object_id]] = 1

DiscardNeverStarted ==
    /\ ReleasedToZero({CREATED}) =>
          LET id == Head(mgr_queue).object_id
              obj == objects_by_id[id]
          IN  /\ Draining(id) # {}
              /\ id \notin DOMAIN objects_by_id'
              /\ id \notin DOMAIN pending_ref_callbacks'
              /\ ref_count'[obj] = 0
              /\ ref_mgmt_state'[obj] = CREATED
              /\ unref_sent' = unref_sent
              /\ start_calls' = start_calls
              /\ stopping_objects_by_id' = stopping_objects_by_id
    \* an object that was discarded stays as it is, and no object comes back
    /\ \A obj \in Objs :
          ~IsCurrent(obj) =>
              /\ ~IsCurrent(obj)'
              /\ ref_mgmt_state[obj] = CREATED =>
                    /\ ref_mgmt_state'[obj] = CREATED
                    /\ start_calls'[obj] = 0
                    /\ unref_sent'[obj] = 0

NeverStartedLeavesNoTrace ==
    \A obj \in Objs :
        (ref_mgmt_state[obj] = CREATED /\ ~IsCurrent(obj)) =>
            /\ start_calls[obj] = 0
            /\ unref_sent[obj] = 0
            /\ unref_handled[obj] = 0
            /\ obj \notin Draining(obj_id[obj])
            /\ ref_count[obj] = 0

\* C13: a decref that takes the count of a CREATED current object to zero
\* (which happens only while an older object of the id is being cleaned up)
\* pops the id from objects_by_id and from pending_ref_callbacks, sends no
\* on_unreferenced, and leaves stopping_objects_by_id as it was; the object
\* stays CREATED, is never current again and start() is never called on it.
C13_CreatedReleasedIsDiscarded ==
    []NeverStartedLeavesNoTrace /\ [][DiscardNeverStarted]_vars

\* A second generation constructed while the first was draining, released
\* before it was started: CREATED, not current, never started or told to
\* clean up; the first generation has finished its cleanup since.
C13_Witness ==
    \E obj \in Objs :
        /\ created_draining[obj]
        /\ ref_mgmt_state[obj] = CREATED
        /\ ~IsCurrent(obj)
        /\ incref_count[obj] = 1 /\ decref_count[obj] = 1
        /\ start_calls[obj] = 0 /\ unref_sent[obj] = 0
        /\ Draining(obj_id[obj]) = {}

\* --------------------------------------------------------------- C14
StopWhenUnreferenced ==
    /\ ReleasedToZero({STARTING, LIVE}) =>
          LET id == Head(mgr_queue).object_id
              obj == objects_by_id[id]
          IN  /\ ref_mgmt_state'[obj] = STOPPING
              /\ ref_count'[obj] = 0
              /\ DefaultGet(stopping_objects_by_id', id) = Draining(id) \cup {obj}
              /\ id \notin DOMAIN objects_by_id'
              /\ id \notin DOMAIN pending_ref_callbacks'
              /\ unref_sent' = [unref_sent EXCEPT ![obj] = @ + 1]
    \* on_unreferenced is sent by no other step
    /\ \A obj \in Objs :
          unref_sent'[obj] # unref_sent[obj] =>
              ReleasedToZero({STARTING, LIVE})
                  /\ obj = objects_by_id[Head(mgr_queue).object_id]

UnreferencedOnce ==
    \A obj \in Objs :
        /\ unref_sent[obj] <= 1
        /\ unref_sent[obj] = 1 =>
              /\ start_calls[obj] = 1
              /\ ref_mgmt_state[obj] = STOPPING
        /\ ref_mgmt_state[obj] = STOPPING => unref_sent[obj] = 1

\* C14: a decref that takes the count of a STARTING or LIVE current object
\* to zero marks it STOPPING, adds it to stopping_objects_by_id[id], pops the
\* id from objects_by_id and pending_ref_callbacks and sends the object
\* on_unreferenced, all in that step; on_unreferenced is sent to an object at
\* most once, by such a step only, and only after start() was called on it.
C14_RunningReleasedIsStopped ==
    []UnreferencedOnce /\ [][StopWhenUnreferenced]_vars

\* An object released to zero while STARTING, before it reported startup:
\* it is STOPPING and recorded as such, was sent on_unreferenced once, and
\* the callback that waited for it was discarded.
C14_Witness ==
    \E obj \in Objs :
        /\ ref_mgmt_state[obj] = STOPPING
        /\ obj \in Draining(obj_id[obj])
        /\ unref_sent[obj] = 1 /\ start_calls[obj] = 1
        /\ notify_ready_calls[obj] = 0
        /\ ~HasCurrent(obj_id[obj])
        /\ \E cb \in discarded : requested[cb.n].object_id = obj_id[obj]

\* --------------------------------------------------------------- C15
\* The manager handled a message of the given type in this step, and did
\* not stop on an assertion before.
HandledNow(type) == Handled(type) /\ ~mgr_failed

\* The on_object_startup_complete at the head of the mailbox is not for the
\* current object of its id in state STARTING.
StaleStartup ==
    LET m == Head(mgr_queue) IN
    ~(CurrentIn(m.object_id, {STARTING}) /\ objects_by_id[m.object_id] = m.obj)

\* The on_object_cleanup_complete at the head of the mailbox is for an object
\* that is not in stopping_objects_by_id[id].
StaleCleanup ==
    LET m == Head(mgr_queue) IN m.obj \notin Draining(m.object_id)

Ignored ==
    /\ UNCHANGED ManagerTables
    /\ spawned' = spawned
    /\ dispatched' = dispatched
    /\ ~mgr_failed'

IgnoreStaleUpcalls ==
    /\ (HandledNow("on_object_startup_complete") /\ StaleStartup) => Ignored
    /\ (HandledNow("on_object_cleanup_complete") /\ StaleCleanup) => Ignored

\* C15: on_object_startup_complete(id, obj) for an obj that is not the
\* current object of id, or is not STARTING, and on_object_cleanup_complete
\* (id, obj) for an obj that is not in stopping_objects_by_id[id], change no
\* object's state or count, none of the manager's dicts, call start() on
\* nothing, spawn no callback and raise nothing.
C15_StaleUpcallsIgnored == [][IgnoreStaleUpcalls]_vars

\* The first generation was released while STARTING (its callback was
\* discarded), reported startup complete all the same and cleanup complete
\* twice; all of it has been handled, and the second generation is current
\* and STARTING, not yet ready.
C15_Witness ==
    \E old, new \in Objs :
        /\ old < new /\ obj_id[old] = obj_id[new]
        /\ \E cb \in discarded : dispatched[cb.n] = 0
        /\ ref_mgmt_state[old] = STOPPING
        /\ notify_ready_calls[old] = 1
        /\ unref_handled[old] = 2
        /\ mgr_queue = <<>>
        /\ IsCurrent(new)
        /\ ref_mgmt_state[new] = STARTING
        /\ notify_ready_calls[new] = 0
        /\ Draining(obj_id[new]) = {}

\* --------------------------------------------------------------- C16
CleanupStartsSuccessor ==
    (HandledNow("on_object_cleanup_complete") /\ ~StaleCleanup) =>
        LET id == Head(mgr_queue).object_id
            obj == Head(mgr_queue).obj
            left == Draining(id) \ {obj}
        IN  /\ DefaultGet(stopping_objects_by_id', id) = left
            /\ objects_by_id' = objects_by_id
            /\ ref_count' = ref_count
            /\ left = {} =>
                  /\ id \notin DOMAIN stopping_objects_by_id'
                  /\ IF CurrentIn(id, {CREATED})
                     THEN /\ ref_mgmt_state' = [ref_mgmt_state EXCEPT
                                                   ![objects_by_id[id]] = STARTING]
                          /\ start_calls' = [start_calls EXCEPT
                                                ![objects_by_id[id]] = @ + 1]
                     ELSE /\ ref_mgmt_state' = ref_mgmt_state
                          /\ start_calls' = start_calls
            /\ left # {} =>
                  /\ ref_mgmt_state' = ref_mgmt_state
                  /\ start_calls' = start_calls

CreatedOnlyWhileDraining ==
    \A id \in Ids : CurrentIn(id, {CREATED}) => Draining(id) # {}

\* C16: on_object_cleanup_complete(id, obj) for an obj in
\* stopping_objects_by_id[id] removes it; if the set is then empty the entry
\* is deleted and, in the same step, a CREATED current object of id becomes
\* STARTING and start() is called on it; if objects remain, nothing is
\* started.  Between the manager's steps a current object is CREATED only
\* while stopping_objects_by_id[id] is non-empty.
C16_CleanupCompleteStartsSuccessor ==
    []CreatedOnlyWhileDraining /\ [][CleanupStartsSuccessor]_vars

\* The second generation, constructed while the first was draining, was
\* started by the cleanup-complete of the first: it is STARTING, has not
\* reported ready, and the entry for its id is gone.
C16_Witness ==
    \E obj \in Objs :
        /\ created_draining[obj]
        /\ IsCurrent(obj)
        /\ ref_mgmt_state[obj] = STARTING
        /\ start_calls[obj] = 1
        /\ notify_ready_calls[obj] = 0
        /\ obj_id[obj] \notin DOMAIN stopping_objects_by_id

\* --------------------------------------------------------------- C17
DecrefFindsReference ==
    Handled("decref") =>
        LET id == Head(mgr_queue).object_id IN
        /\ HasCurrent(id)
        /\ ref_count[objects_by_id[id]] >= 1
        /\ ref_count'[objects_by_id[id]] = ref_count[objects_by_id[id]] - 1
        /\ ~mgr_failed'

\* C17: when the manager is used through helpers only, every decref the
\* manager handles finds a current object for its id with a count of at
\* least one, under every interleaving of helper calls, manager steps,
\* greenlets and mailboxes: neither assertion of decref fails.
C17_HelpersNeverTripAssertions ==
    [](~mgr_failed) /\ [][DecrefFindsReference]_vars

\* Two helpers shared one object and both released it, one of them through
\* the decref that on_ref_acquired sends for an id discarded in the
\* meantime; the manager handled both and the object is being cleaned up.
C17_Witness ==
    \E obj \in Objs :
        /\ incref_count[obj] = 2 /\ decref_count[obj] = 2
        /\ ref_count[obj] = 0
        /\ ref_mgmt_state[obj] = STOPPING
        /\ ~mgr_failed
        /\ \E h1, h2 \in Helpers :
              /\ h1 # h2
              /\ decrefs_sent[h1][obj_id[obj]] = 1 /\ ready_callback_calls[h1] = 0
              /\ decrefs_sent[h2][obj_id[obj]] = 1 /\ ready_callback_calls[h2] = 1

\* --------------------------------------------------------------- C18
\* The helpers that have id in acquired_refs with the given object.
Holders(id, obj) ==
    {h \in Helpers : id \in DOMAIN acquired_refs[h] /\ acquired_refs[h][id] = obj}

\* C18: every (id, obj) in a helper's acquired_refs is the manager's current
\* object for id, is LIVE, and its count covers the helpers that hold it: a
\* helper never holds an object that is STOPPING or of an older generation.
C18_HelperHoldsCurrentLive ==
    \A h \in Helpers : \A id \in DOMAIN acquired_refs[h] :
        LET obj == acquired_refs[h][id] IN
        /\ HasCurrent(id)
        /\ objects_by_id[id] = obj
        /\ ref_mgmt_state[obj] = LIVE
        /\ ref_count[obj] >= Cardinality(Holders(id, obj))

\* A helper holds the second generation of an id, which is current and
\* LIVE, while the first generation, which the helper held before, stays
\* STOPPING and belongs to nobody.
C18_Witness ==
    \E h \in Helpers, id \in Ids :
        /\ id \in DOMAIN acquired_refs[h]
        /\ increfs_sent[h][id] = 2 /\ decrefs_sent[h][id] = 1
        /\ ready_callback_calls[h] = 2
        /\ \E old \in Objs :
              /\ old < acquired_refs[h][id]
              /\ obj_id[old] = id
              /\ ref_mgmt_state[old] = STOPPING
              /\ Holders(id, old) = {}

\* --------------------------------------------------------------- C19
\* C19: between the manager's steps every key of stopping_objects_by_id
\* maps to a set of exactly one object, which has that id, is STOPPING and
\* has ref_count 0; no key maps to an empty set.
C19_OneStoppingObjectPerId ==
    \A id \in DOMAIN stopping_objects_by_id :
        /\ Cardinality(stopping_objects_by_id[id]) = 1
        /\ \A obj \in stopping_objects_by_id[id] :
              /\ obj \in Objs
              /\ obj_id[obj] = id
              /\ ref_mgmt_state[obj] = STOPPING
              /\ ref_count[obj] = 0

\* The second generation of an id is the one object in the set for the id,
\* after the first generation reported cleanup complete twice and both
\* reports were handled.
C19_Witness ==
    \E id \in DOMAIN stopping_objects_by_id :
        \E old, new \in Objs :
            /\ old < new /\ obj_id[old] = id
            /\ stopping_objects_by_id[id] = {new}
            /\ unref_handled[old] = 2
            /\ unref_handled[new] = 0
            /\ mgr_queue = <<>>

\* --------------------------------------------------------------- C20
\* C20: between the manager's steps every object in objects_by_id has a
\* ref_count of at least one and is CREATED, STARTING or LIVE, and
\* pending_ref_callbacks[id] is non-empty only while id has a current object
\* that is CREATED or STARTING.
C20_CurrentObjectsAreReferenced ==
    /\ \A id \in DOMAIN objects_by_id :
          /\ objects_by_id[id] \in Objs
          /\ obj_id[objects_by_id[id]] = id
          /\ ref_count[objects_by_id[id]] >= 1
          /\ ref_mgmt_state[objects_by_id[id]] \in {CREATED, STARTING, LIVE}
    /\ \A id \in Ids :
          DefaultGet(pending_ref_callbacks, id) # {} => CurrentIn(id, {CREATED, STARTING})

\* A callback waits for a second generation that is CREATED and referenced
\* once, behind a first generation that has been told to clean up and has
\* not reported yet.
C20_Witness ==
    \E id \in DOMAIN objects_by_id :
        /\ ref_mgmt_state[objects_by_id[id]] = CREATED
        /\ ref_count[objects_by_id[id]] = 1
        /\ Cardinality(DefaultGet(pending_ref_callbacks, id)) = 1
        /\ \E old \in Draining(id) : unref_sent[old] = 1 /\ unref_handled[old] = 0

====
